---- MODULE Spec2Model ----
(***************************************************************************)
(* Model of the two geocoding gateway functions of nawafunc:               *)
(*   - the search function (forward / reverse search, plain string cache   *)
(*     with a 200 hour TTL), and                                           *)
(*   - the geocoding function (forward search only, JSON document cache).  *)
(* Every process is one function instance: it handles one request at a     *)
(* time, keeps its package-level corsHeaders map between requests, and     *)
(* shares the Redis store with all the other instances.  A request is      *)
(* split at its blocking calls (cache get, provider call, cache set), so   *)
(* that requests of different instances interleave there.                  *)
(* Strings that the code concatenates or inspects (keys, bodies, paths,    *)
(* error texts) are sequences of text tokens; "" is <<>>.                  *)
(***************************************************************************)
EXTENDS Integers, Sequences, FiniteSets, TLC

\* ---------------------------------------------------------------- bounds
MaxRequests == 2      \* requests accepted over a run
MaxTime     == 200    \* hours the clock may reach

\* ------------------------------------------------------ program constants
localhostOrigin == "http://localhost:3000"
githubOrigin    == "https://tshrestha.github.io"
TTLHours        == 200
TickHours       == TTLHours \div 2      \* granularity of the clock
StatusOK                  == 200
StatusNotFound            == 404
StatusMethodNotAllowed    == 405
StatusInternalServerError == 500

ACAO == "Access-Control-Allow-Origin"
ACAH == "Access-Control-Allow-Headers"
ACAM == "Access-Control-Allow-Methods"

\* corsHeaders as each program initialises it
searchCorsInit    == [h \in {ACAO, ACAH, ACAM} |-> IF h = ACAO THEN localhostOrigin ELSE "*"]
geocodingCorsInit == [h \in {ACAO, ACAH, ACAM} |-> IF h = ACAO THEN "" ELSE "*"]
NilHeaders        == [h \in {} |-> ""]

\* -------------------------------------------------------------- processes
SearchProcs    == {"s1", "s2"}
GeocodingProcs == {"g1"}
Procs          == SearchProcs \cup GeocodingProcs

\* ----------------------------------------------------------------- inputs
Methods == {"GET", "OPTIONS", "POST"}
Origins == {localhostOrigin, githubOrigin, "https://evil.example", ""}
Paths   == { <<"/", "x", "/", "forward">>,
             <<"/", "x", "/", "reverse">>,
             <<"/", "x", "/", "unknown">>,
             <<"/", "x", "/", "forward", "/">> }
\* QueryStringParameters; a parameter the caller left out reads as ""
Params  == { [q |-> <<"1", "2", "3">>, lat |-> <<"1">>,      lon |-> <<"2", "3">>],
             [q |-> <<>>,              lat |-> <<"1", "2">>, lon |-> <<"3">>] }
Requests == [HTTPMethod : Methods, Path : Paths, Origin : Origins, Query : Params]
\* the geocoding function never reads the path
GeocodingRequests == {r \in Requests : r.Path = <<"/", "x", "/", "forward">>}

\* what the provider may answer
Bodies   == { <<>>, <<"{", " ", "A", "}">>, <<"{", "B", "}">> }
ProviderOutcomes ==
    {[kind |-> "response", status |-> StatusOK, body |-> b] : b \in Bodies}
    \cup {[kind |-> "response", status |-> s, body |-> <<"{", "B", "}">>] : s \in {404, 503}}
    \cup {[kind |-> "transport", status |-> 0, body |-> <<"dial tcp: i/o timeout">>]}
    \cup {[kind |-> "readerr", status |-> StatusOK, body |-> <<"unexpected EOF">>]}

\* ---------------------------------------------------------- text helpers
Digits == <<"0", "1", "2", "3", "4", "5", "6", "7", "8", "9">>

RECURSIVE Itoa(_)
\* %d of a non-negative integer
Itoa(n) == IF n < 10 THEN <<Digits[n + 1]>>
           ELSE Itoa(n \div 10) \o <<Digits[(n % 10) + 1]>>

Contains(s, sub) ==
    \E i \in 1..(Len(s) - Len(sub) + 1) : SubSeq(s, i, i + Len(sub) - 1) = sub

RECURSIVE Split(_)
\* strings.Split(path, "/"): the segments between the delimiters
Split(s) ==
    IF \A i \in 1..Len(s) : s[i] # "/" THEN <<s>>
    ELSE LET i == CHOOSE j \in 1..Len(s) :
                      s[j] = "/" /\ \A k \in 1..(j - 1) : s[k] # "/"
         IN  <<SubSeq(s, 1, i - 1)>> \o Split(SubSeq(s, i + 1, Len(s)))

\* pathSegments[len(pathSegments)-1]
requestType(path) == LET pathSegments == Split(path)
                     IN  pathSegments[Len(pathSegments)]

\* --------------------------------------------------------- the Redis store
NoEntry  == [kind |-> "none", val |-> <<>>, exp |-> 0]
NoExpiry == -1

forwardKey(query)    == query
\* a reverse key that keeps the two coordinates apart
reverseKeySep(lat, lon) == lat \o <<",">> \o lon

reverseKey(lat, lon) == lat \o lon

Keys == {forwardKey(p.q) : p \in Params} \cup {reverseKey(p.lat, p.lon) : p \in Params}

\* GET key
RedisGet(store, key, reachable) ==
    IF ~reachable THEN [val |-> <<>>, err |-> "dial tcp: connection refused"]
    ELSE IF store[key].kind = "none" THEN [val |-> <<>>, err |-> "redis: nil"]
    ELSE IF store[key].kind # "string" THEN [val |-> <<>>, err |-> "WRONGTYPE"]
    ELSE [val |-> store[key].val, err |-> "nil"]

\* SET key value EX ttl: replaces whatever the key held
RedisSet(store, key, value, ttl, t, reachable) ==
    IF ~reachable THEN store
    ELSE [store EXCEPT ![key] = [kind |-> "string", val |-> value, exp |-> t + ttl]]

\* JSON.GET key $: the document, wrapped in the array a JSONPath query returns
RedisJSONGet(store, key, reachable) ==
    IF ~reachable THEN [val |-> <<>>, err |-> "dial tcp: connection refused"]
    ELSE IF store[key].kind = "none" THEN [val |-> <<>>, err |-> "redis: nil"]
    ELSE IF store[key].kind # "json" THEN [val |-> <<>>, err |-> "WRONGTYPE"]
    ELSE [val |-> <<"[">> \o store[key].val \o <<"]">>, err |-> "nil"]

\* JSON.SET key $ value: refused on a key that holds another type
RedisJSONSet(store, key, value, reachable) ==
    IF ~reachable \/ store[key].kind = "string" THEN store
    ELSE [store EXCEPT ![key] = [kind |-> "json", val |-> value, exp |-> NoExpiry]]

\* keys whose time to live has run out at time t
Expired(store, t) == {k \in DOMAIN store : store[k].exp # NoExpiry /\ store[k].exp <= t
                                            /\ store[k].kind # "none"}

\* ------------------------------------------------- JSON (geocoding only)
StripSpace(s) == SelectSeq(s, LAMBDA c : c # " ")

\* json.Unmarshal(body, &featureCollection): on an error the collection
\* stays the zero value
Unmarshal(body) ==
    LET t == StripSpace(body)
    IN  IF Len(t) >= 2 /\ t[1] = "{" /\ t[Len(t)] = "}"
        THEN [features |-> SubSeq(t, 2, Len(t) - 1), failed |-> FALSE]
        ELSE [features |-> <<>>, failed |-> TRUE]

\* json.Marshal(featureCollection), as JSONSet sends it
Marshal(features) == <<"{">> \o features \o <<"}">>

\* ---------------------------------------------------- the search program
\* createResponse: reflects an allow-listed origin into the shared map and
\* returns the map itself as the response headers
createResponse(cors, origin, statusCode, body) ==
    LET c == IF origin = localhostOrigin \/ origin = githubOrigin
             THEN [cors EXCEPT ![ACAO] = origin]
             ELSE cors
    IN  [cors |-> c,
         resp |-> [StatusCode |-> statusCode, Body |-> body, Headers |-> c]]

\* getCached that hands the text of the error to its caller
getCachedErrText(store, key, reachable) ==
    LET r == RedisGet(store, key, reachable)
    IN  IF r.err # "nil" THEN <<r.err>> ELSE r.val

\* getCached: any error of the get reads as ""
getCached(store, key, reachable) ==
    LET r == RedisGet(store, key, reachable)
    IN  IF r.err # "nil" THEN <<>> ELSE r.val

\* a set with half the time to live
setCacheShortTTL(store, key, value, t, reachable) ==
    RedisSet(store, key, value, TTLHours \div 2, t, reachable)

\* setCache: the error of the set is logged and dropped
setCache(store, key, value, t, reachable) ==
    RedisSet(store, key, value, TTLHours, t, reachable)

\* search whose status error leaves the status code out
searchNoCode(outcome) ==
    IF outcome.kind = "transport"
    THEN [result |-> <<>>, failed |-> TRUE, err |-> outcome.body]
    ELSE IF outcome.status = StatusOK
         THEN IF outcome.kind = "readerr"
              THEN [result |-> <<>>, failed |-> TRUE, err |-> outcome.body]
              ELSE [result |-> outcome.body, failed |-> FALSE, err |-> <<>>]
         ELSE [result |-> <<>>, failed |-> TRUE,
               err |-> <<"received unexpected status code ">>]

\* search that takes the body of any response, whatever its status
searchAnyStatus(outcome) ==
    IF outcome.kind = "transport"
    THEN [result |-> <<>>, failed |-> TRUE, err |-> outcome.body]
    ELSE IF outcome.kind = "readerr"
         THEN [result |-> <<>>, failed |-> TRUE, err |-> outcome.body]
         ELSE [result |-> outcome.body, failed |-> FALSE, err |-> <<>>]

\* search: classifies what the provider call produced
search(outcome) ==
    IF outcome.kind = "transport"
    THEN [result |-> <<>>, failed |-> TRUE, err |-> outcome.body]
    ELSE IF outcome.status = StatusOK
         THEN IF outcome.kind = "readerr"
              THEN [result |-> <<>>, failed |-> TRUE, err |-> outcome.body]
              ELSE [result |-> outcome.body, failed |-> FALSE, err |-> <<>>]
         ELSE [result |-> <<>>, failed |-> TRUE,
               err |-> <<"received unexpected status code ">> \o Itoa(outcome.status)]

\* a miss branch that calls the provider again after a failed call
afterSearchRetry(failed) == IF failed THEN "ProviderCall" ELSE "CachePopulate"

\* a miss branch that goes on to the cache set whatever search returned
afterSearchAlwaysSet(failed) == "CachePopulate"

\* forwardSearch / reverseSearch after search returned: an error is answered
\* at once, a result goes on to setCache; there is no second call
afterSearch(failed) == IF failed THEN "Respond" ELSE "CachePopulate"

\* a success branch that reports a failed set to the caller
populatedOrSetError(res, setFailed) ==
    IF setFailed THEN [StatusCode |-> StatusInternalServerError, Body |-> <<"failed to set cache">>]
    ELSE [StatusCode |-> StatusOK, Body |-> res]

\* forwardSearch / reverseSearch after the provider call succeeded: setCache
\* returns nothing, the response is built from the provider result alone
populated(res, setFailed) == [StatusCode |-> StatusOK, Body |-> res]

\* a preflight condition that knows the local origin only
shortCircuitLocalOnly(method, origin) ==
    method = "OPTIONS" /\ origin = localhostOrigin

\* the condition in front of the router:
\* method == OPTIONS && origin == localhostOrigin || origin == githubOrigin
shortCircuit(method, origin) ==
    (method = "OPTIONS" /\ origin = localhostOrigin) \/ origin = githubOrigin

\* handler, up to its first blocking call: where the request goes
route(request) ==
    IF shortCircuit(request.HTTPMethod, request.Origin) THEN "preflight"
    ELSE IF request.HTTPMethod = "GET"
         THEN IF requestType(request.Path) = <<"forward">> THEN "forward"
              ELSE IF requestType(request.Path) = <<"reverse">> THEN "reverse"
              ELSE "notfound"
         ELSE "notallowed"

\* the cache key forwardSearch / reverseSearch use for get and set
searchKey(op, query) ==
    IF op = "forward" THEN forwardKey(query.q) ELSE reverseKey(query.lat, query.lon)

\* -------------------------------------------------- the geocoding program
\* handler, up to its first blocking call
geocodingRoute(request) ==
    IF shortCircuit(request.HTTPMethod, request.Origin) THEN "preflight"
    ELSE IF request.HTTPMethod = "GET" THEN "forward"
    ELSE "notallowed"

\* geocoding: classifies what the provider call produced
geocoding(outcome) ==
    IF outcome.kind = "transport"
    THEN [result |-> <<>>, failed |-> TRUE, err |-> outcome.body]
    ELSE IF outcome.status = StatusOK
         THEN IF outcome.kind = "readerr"
              THEN [result |-> <<>>, failed |-> TRUE, err |-> outcome.body]
              ELSE [result |-> outcome.body, failed |-> FALSE, err |-> <<>>]
         ELSE [result |-> <<>>, failed |-> TRUE,
               err |-> <<"received unexpected status code ">> \o Itoa(outcome.status)]

\* ------------------------------------------------------------------ state
VARIABLES
    cache,        \* the Redis store: key -> entry
    now,          \* hours since the start
    corsHeaders,  \* per process: the package-level header map
    pc,           \* per process: where its handler stands
    req,          \* per process: the request being handled
    key,          \* per process: local cache key
    result,       \* per process: local provider result
    resp,         \* per process: the response the handler returns
    trace,        \* per process: what happened while handling the request
    nreq          \* requests accepted so far

vars == <<cache, now, corsHeaders, pc, req, key, result, resp, trace, nreq>>

NoReq   == [HTTPMethod |-> "", Path |-> <<>>, Origin |-> "",
            Query |-> [q |-> <<>>, lat |-> <<>>, lon |-> <<>>]]
NoResp  == [StatusCode |-> 0, Body |-> <<>>, Headers |-> NilHeaders]
NoOutcome == [kind |-> "none", status |-> 0, body |-> <<>>]
NoTrace == [route |-> "", prior |-> NoEntry, lookup |-> "none", prov |-> NoOutcome,
            provCalls |-> 0, setCalls |-> 0, setOk |-> FALSE, writes |-> 0]

Init ==
    /\ cache = [k \in Keys |-> NoEntry]
    /\ now = 0
    /\ corsHeaders = [p \in Procs |-> IF p \in SearchProcs THEN searchCorsInit
                                                           ELSE geocodingCorsInit]
    /\ pc = [p \in Procs |-> "Idle"]
    /\ req = [p \in Procs |-> NoReq]
    /\ key = [p \in Procs |-> <<>>]
    /\ result = [p \in Procs |-> <<>>]
    /\ resp = [p \in Procs |-> NoResp]
    /\ trace = [p \in Procs |-> NoTrace]
    /\ nreq = 0

\* whether the get reached the store
lookupOf(reachable) == IF reachable THEN "reachable" ELSE "unreachable"

\* A returned response is handed over before anything else happens: Return
\* changes only the returning process's own state, so taking it first
\* loses no behaviour of the other processes.
NoneResponding == \A q \in Procs : pc[q] # "Respond"

Answer(p, cr) ==
    /\ corsHeaders' = [corsHeaders EXCEPT ![p] = cr.cors]
    /\ resp' = [resp EXCEPT ![p] = cr.resp]
    /\ pc' = [pc EXCEPT ![p] = "Respond"]

\* ------------------------------------------------- actions: search program
\* handler: preflight condition and router
SearchReceive(p, r) ==
    /\ NoneResponding
    /\ p \in SearchProcs
    /\ pc[p] = "Idle"
    /\ nreq < MaxRequests
    /\ nreq' = nreq + 1
    /\ req' = [req EXCEPT ![p] = r]
    /\ LET rt == route(r)
       IN  /\ trace' = [trace EXCEPT ![p] =
                          [NoTrace EXCEPT !.route = rt,
                                          !.prior = IF rt \in {"forward", "reverse"}
                                                    THEN cache[searchKey(rt, r.Query)]
                                                    ELSE NoEntry]]
           /\ IF rt \in {"forward", "reverse"}
              THEN /\ key' = [key EXCEPT ![p] = searchKey(rt, r.Query)]
                   /\ pc' = [pc EXCEPT ![p] = "CacheLookup"]
                   /\ UNCHANGED <<corsHeaders, resp>>
              ELSE /\ Answer(p, createResponse(corsHeaders[p], r.Origin,
                                  CASE rt = "preflight" -> StatusOK
                                    [] rt = "notfound"  -> StatusNotFound
                                    [] OTHER            -> StatusMethodNotAllowed,
                                  <<>>))
                   /\ UNCHANGED key
    /\ UNCHANGED <<cache, now, result>>

\* forwardSearch / reverseSearch: the cache get and the hit branch
SearchLookup(p, reachable) ==
    /\ NoneResponding
    /\ p \in SearchProcs
    /\ pc[p] = "CacheLookup"
    /\ LET cached == getCached(cache, key[p], reachable)
       IN  /\ trace' = [trace EXCEPT ![p].lookup = lookupOf(reachable)]
           /\ IF cached = <<>>
              THEN /\ pc' = [pc EXCEPT ![p] = "ProviderCall"]
                   /\ UNCHANGED <<corsHeaders, resp>>
              ELSE Answer(p, createResponse(corsHeaders[p], req[p].Origin, StatusOK, cached))
    /\ UNCHANGED <<cache, now, req, key, result, nreq>>

\* forwardSearch / reverseSearch: the provider call and the error branch
SearchProviderCall(p, outcome) ==
    /\ NoneResponding
    /\ p \in SearchProcs
    /\ pc[p] = "ProviderCall"
    /\ trace' = [trace EXCEPT ![p].prov = outcome,
                              ![p].provCalls = trace[p].provCalls + 1]
    /\ LET s    == search(outcome)
           next == afterSearch(s.failed)
       IN  CASE next = "Respond" ->
                  /\ Answer(p, createResponse(corsHeaders[p], req[p].Origin,
                                 IF s.failed THEN StatusInternalServerError ELSE StatusOK,
                                 IF s.failed THEN s.err ELSE s.result))
                  /\ UNCHANGED result
             [] next = "CachePopulate" ->
                  /\ result' = [result EXCEPT ![p] = s.result]
                  /\ pc' = [pc EXCEPT ![p] = "CachePopulate"]
                  /\ UNCHANGED <<corsHeaders, resp>>
             [] OTHER ->
                  UNCHANGED <<pc, result, corsHeaders, resp>>
    /\ UNCHANGED <<cache, now, req, key, nreq>>

\* forwardSearch / reverseSearch: the cache set and the success response
SearchPopulate(p, reachable) ==
    /\ NoneResponding
    /\ p \in SearchProcs
    /\ pc[p] = "CachePopulate"
    /\ cache' = setCache(cache, key[p], result[p], now, reachable)
    /\ trace' = [trace EXCEPT ![p].setCalls = trace[p].setCalls + 1,
                              ![p].setOk = reachable,
                              ![p].writes = trace[p].writes + (IF cache' # cache THEN 1 ELSE 0)]
    /\ LET r == populated(result[p], ~reachable)
       IN  Answer(p, createResponse(corsHeaders[p], req[p].Origin, r.StatusCode, r.Body))
    /\ UNCHANGED <<now, req, key, result, nreq>>

\* ---------------------------------------------- actions: geocoding program
\* handler: preflight condition and method check
GeocodingReceive(p, r) ==
    /\ NoneResponding
    /\ p \in GeocodingProcs
    /\ pc[p] = "Idle"
    /\ nreq < MaxRequests
    /\ nreq' = nreq + 1
    /\ req' = [req EXCEPT ![p] = r]
    /\ LET rt == geocodingRoute(r)
       IN  /\ trace' = [trace EXCEPT ![p] = [NoTrace EXCEPT !.route = rt]]
           /\ CASE rt = "preflight" ->
                    LET c == [corsHeaders[p] EXCEPT ![ACAO] = r.Origin]
                    IN  /\ Answer(p, [cors |-> c,
                                      resp |-> [StatusCode |-> StatusOK, Body |-> <<>>,
                                                Headers |-> c]])
                        /\ UNCHANGED key
                [] rt = "forward" ->
                    /\ key' = [key EXCEPT ![p] = forwardKey(r.Query.q)]
                    /\ pc' = [pc EXCEPT ![p] = "CacheLookup"]
                    /\ UNCHANGED <<corsHeaders, resp>>
                [] OTHER ->
                    /\ Answer(p, [cors |-> corsHeaders[p],
                                  resp |-> [StatusCode |-> StatusMethodNotAllowed,
                                            Body |-> <<>>, Headers |-> NilHeaders]])
                    /\ UNCHANGED key
    /\ UNCHANGED <<cache, now, result>>

\* handler: JSONGet and the hit branch
GeocodingLookup(p, reachable) ==
    /\ NoneResponding
    /\ p \in GeocodingProcs
    /\ pc[p] = "CacheLookup"
    /\ LET r == RedisJSONGet(cache, key[p], reachable)
       IN  /\ trace' = [trace EXCEPT ![p].lookup = lookupOf(reachable)]
           /\ IF r.err # "nil"
              THEN /\ pc' = [pc EXCEPT ![p] = "ProviderCall"]
                   /\ UNCHANGED <<corsHeaders, resp>>
              ELSE Answer(p, [cors |-> corsHeaders[p],
                              resp |-> [StatusCode |-> StatusOK, Body |-> r.val,
                                        Headers |-> NilHeaders]])
    /\ UNCHANGED <<cache, now, req, key, result, nreq>>

\* geocoding: the provider call; handler: the error branch
GeocodingProviderCall(p, outcome) ==
    /\ NoneResponding
    /\ p \in GeocodingProcs
    /\ pc[p] = "ProviderCall"
    /\ trace' = [trace EXCEPT ![p].prov = outcome,
                              ![p].provCalls = trace[p].provCalls + 1]
    /\ LET g == geocoding(outcome)
       IN  IF g.failed
           THEN /\ Answer(p, [cors |-> corsHeaders[p],
                              resp |-> [StatusCode |-> StatusInternalServerError,
                                        Body |-> g.err, Headers |-> NilHeaders]])
                /\ UNCHANGED result
           ELSE /\ result' = [result EXCEPT ![p] = g.result]
                /\ pc' = [pc EXCEPT ![p] = "CachePopulate"]
                /\ UNCHANGED <<corsHeaders, resp>>
    /\ UNCHANGED <<cache, now, req, key, nreq>>

\* geocoding: Unmarshal and JSONSet; handler: the success response
GeocodingPopulate(p, reachable) ==
    /\ NoneResponding
    /\ p \in GeocodingProcs
    /\ pc[p] = "CachePopulate"
    /\ LET featureCollection == Unmarshal(result[p]).features
       IN  cache' = RedisJSONSet(cache, key[p], Marshal(featureCollection), reachable)
    /\ trace' = [trace EXCEPT ![p].setCalls = trace[p].setCalls + 1,
                              ![p].setOk = (reachable /\ cache[key[p]].kind # "string"),
                              ![p].writes = trace[p].writes + (IF cache' # cache THEN 1 ELSE 0)]
    /\ Answer(p, [cors |-> corsHeaders[p],
                  resp |-> [StatusCode |-> StatusOK, Body |-> result[p],
                            Headers |-> NilHeaders]])
    /\ UNCHANGED <<now, req, key, result, nreq>>

\* ------------------------------------------------------ actions: the rest
\* the response leaves the process; the next invocation starts afresh
Return(p) ==
    /\ pc[p] = "Respond"
    /\ pc' = [pc EXCEPT ![p] = "Idle"]
    /\ req' = [req EXCEPT ![p] = NoReq]
    /\ key' = [key EXCEPT ![p] = <<>>]
    /\ result' = [result EXCEPT ![p] = <<>>]
    /\ resp' = [resp EXCEPT ![p] = NoResp]
    /\ trace' = [trace EXCEPT ![p] = NoTrace]
    /\ UNCHANGED <<cache, now, corsHeaders, nreq>>

\* time passes; Redis drops the entries whose time to live ran out
Tick ==
    /\ NoneResponding
    /\ now + TickHours <= MaxTime
    /\ now' = now + TickHours
    /\ cache' = [k \in Keys |-> IF k \in Expired(cache, now') THEN NoEntry ELSE cache[k]]
    /\ UNCHANGED <<corsHeaders, pc, req, key, result, resp, trace, nreq>>

Next ==
    \/ \E p \in Procs, r \in Requests : SearchReceive(p, r)
    \/ \E p \in Procs, b \in BOOLEAN : SearchLookup(p, b)
    \/ \E p \in Procs, o \in ProviderOutcomes : SearchProviderCall(p, o)
    \/ \E p \in Procs, b \in BOOLEAN : SearchPopulate(p, b)
    \/ \E p \in Procs, r \in GeocodingRequests : GeocodingReceive(p, r)
    \/ \E p \in Procs, b \in BOOLEAN : GeocodingLookup(p, b)
    \/ \E p \in Procs, o \in ProviderOutcomes : GeocodingProviderCall(p, o)
    \/ \E p \in Procs, b \in BOOLEAN : GeocodingPopulate(p, b)
    \/ \E p \in Procs : Return(p)
    \/ Tick

Spec == Init /\ [][Next]_vars

\* ------------------------------------------- a deterministic provider
\* forwardSearch / reverseSearch: the URL the provider is asked for
reqURL(op, query) ==
    IF op = "forward" THEN <<"forward", "&q=">> \o query.q
    ELSE <<"reverse", "&latitude=">> \o query.lat \o <<"&longitude=">> \o query.lon

\* a provider whose answer is a function of the URL: status 200 and a
\* document that names the URL
providerOf(url) ==
    [kind |-> "response", status |-> StatusOK, body |-> <<"{">> \o url \o <<"}">>]

\* the search program alone, in front of that provider
NextDet ==
    \/ \E p \in SearchProcs, r \in Requests : SearchReceive(p, r)
    \/ \E p \in SearchProcs, b \in BOOLEAN : SearchLookup(p, b)
    \/ \E p \in SearchProcs :
          SearchProviderCall(p, providerOf(reqURL(trace[p].route, req[p].Query)))
    \/ \E p \in SearchProcs, b \in BOOLEAN : SearchPopulate(p, b)
    \/ \E p \in SearchProcs : Return(p)
    \/ Tick

SpecDet == Init /\ [][NextDet]_vars

\* ================================================================ claims
AllowedOrigins == {localhostOrigin, githubOrigin}
Responding(p)  == pc[p] = "Respond"
Headers(p)     == resp[p].Headers

\* the provider call ended in a classified error
ProviderFailed(o) ==
    o.kind \in {"transport", "readerr"} \/ (o.kind = "response" /\ o.status # 200)
ProviderSucceeded(o) == o.kind = "response" /\ o.status = 200

\* decimal text of the provider statuses, written out
Decimal(n) == CASE n = 404 -> <<"4", "0", "4">>
                [] n = 503 -> <<"5", "0", "3">>
                [] n = 200 -> <<"2", "0", "0">>
                [] OTHER   -> <<"?">>

\* the description of a failed provider call
FailureText(o) ==
    IF o.kind = "response"
    THEN <<"received unexpected status code ">> \o Decimal(o.status)
    ELSE o.body

\* process p takes the cache get of its request in this step
LookupStep(p) == pc[p] = "CacheLookup" /\ pc'[p] # "CacheLookup"

\* C1: a GET forward or reverse request whose key has an entry in the store,
\* with the backend reachable, is answered with status 200 and the stored
\* value, and the provider is not called for it.
C1_CacheHitShortCircuit ==
    [][\A p \in SearchProcs :
          (LookupStep(p) /\ trace'[p].lookup = "reachable"
                         /\ cache[key[p]].kind = "string")
          => /\ pc'[p] = "Respond"
             /\ resp'[p].StatusCode = 200
             /\ resp'[p].Body = cache[key[p]].val
             /\ trace'[p].provCalls = 0]_vars

\* C2: once a miss on key K was followed by a provider success with body B
\* and the set, the store holds B for K, and every later request for K made
\* before the entry expires is answered with 200 and B without a provider call.
C2_CacheAsidePopulation ==
    [][\A p \in SearchProcs :
          /\ (pc[p] = "CachePopulate" /\ pc'[p] = "Respond" /\ trace'[p].setOk)
             => cache'[key[p]] = [kind |-> "string", val |-> trace[p].prov.body,
                                  exp |-> now + TTLHours]
          /\ (LookupStep(p) /\ trace'[p].lookup = "reachable"
                            /\ trace[p].prior.kind = "string"
                            /\ trace[p].prior.val \in Bodies
                            /\ cache[key[p]] = trace[p].prior
                            /\ now < cache[key[p]].exp)
             => /\ pc'[p] = "Respond"
                /\ resp'[p] = [StatusCode |-> 200, Body |-> cache[key[p]].val,
                               Headers |-> resp'[p].Headers]]_vars

\* C3: a response to a request whose Origin is not allow-listed (or missing)
\* carries no Access-Control-Allow-Origin naming an allowed origin.
C3_CorsOmission ==
    \A p \in Procs :
        (Responding(p) /\ req[p].Origin \notin AllowedOrigins)
        => (ACAO \notin DOMAIN Headers(p) \/ Headers(p)[ACAO] \notin AllowedOrigins)

\* C4: a response to a request whose Origin is an allow-listed origin O
\* carries Access-Control-Allow-Origin equal to exactly O.
C4_CorsReflection ==
    \A p \in Procs :
        (Responding(p) /\ req[p].Origin \in AllowedOrigins)
        => (ACAO \in DOMAIN Headers(p) /\ Headers(p)[ACAO] = req[p].Origin)

\* C5: GET .../forward dispatches forward search with q, GET .../reverse
\* dispatches reverse search with lat and lon, a GET with any other final
\* segment yields 404, a method other than GET and OPTIONS yields 405,
\* whatever the Origin.
C5_Routing ==
    \A p \in SearchProcs :
        pc[p] # "Idle" =>
            LET r == req[p]
            IN  /\ (r.HTTPMethod = "GET" /\ requestType(r.Path) = <<"forward">>)
                   => (trace[p].route = "forward" /\ key[p] = r.Query.q)
                /\ (r.HTTPMethod = "GET" /\ requestType(r.Path) = <<"reverse">>)
                   => (trace[p].route = "reverse" /\ key[p] = r.Query.lat \o r.Query.lon)
                /\ (r.HTTPMethod = "GET"
                      /\ requestType(r.Path) \notin {<<"forward">>, <<"reverse">>})
                   => (Responding(p) /\ resp[p].StatusCode = 404)
                /\ (r.HTTPMethod \notin {"GET", "OPTIONS"})
                   => (Responding(p) /\ resp[p].StatusCode = 405)

\* C6: after a miss and a failed provider call the response has status 500
\* and the failure description as body: it contains the decimal status for
\* a non-200 provider status and is the error text for a transport failure.
C6_UpstreamFailureMapping ==
    \A p \in Procs :
        (Responding(p) /\ trace[p].provCalls = 1 /\ ProviderFailed(trace[p].prov))
        => /\ resp[p].StatusCode = 500
           /\ resp[p].Body = FailureText(trace[p].prov)
           /\ trace[p].prov.kind = "response"
              => Contains(resp[p].Body, Decimal(trace[p].prov.status))
           /\ trace[p].prov.kind = "transport"
              => resp[p].Body = trace[p].prov.body

C6_Witness ==
    \E p \in SearchProcs :
        /\ Responding(p) /\ trace[p].prov.status = 503
        /\ resp[p].StatusCode = 500 /\ Contains(resp[p].Body, <<"5", "0", "3">>)

\* C7: a request whose cache get found the backend unreachable is handled as
\* a miss: the provider is called, and status and body follow from the
\* provider outcome alone (200 and the provider body on success).
C7_CacheOutageIsMiss ==
    \A p \in Procs :
        (Responding(p) /\ trace[p].lookup = "unreachable")
        => /\ trace[p].provCalls = 1
           /\ ProviderSucceeded(trace[p].prov)
              => (resp[p].StatusCode = 200 /\ resp[p].Body = trace[p].prov.body)
           /\ ProviderFailed(trace[p].prov)
              => (resp[p].StatusCode = 500 /\ resp[p].Body = FailureText(trace[p].prov))

C7_Witness ==
    \E p \in Procs :
        /\ Responding(p) /\ trace[p].lookup = "unreachable"
        /\ ProviderSucceeded(trace[p].prov) /\ trace[p].prov.body # <<>>
        /\ resp[p].StatusCode = 200 /\ resp[p].Body = trace[p].prov.body

\* C8: after a miss and a provider success with body B the response is 200
\* with body B, whether the cache set succeeded or failed.
C8_SetFailureSwallowed ==
    \A p \in Procs :
        (Responding(p) /\ trace[p].provCalls = 1 /\ ProviderSucceeded(trace[p].prov))
        => /\ trace[p].setCalls = 1
           /\ resp[p].StatusCode = 200
           /\ resp[p].Body = trace[p].prov.body

C8_Witness ==
    \E p \in SearchProcs :
        /\ Responding(p) /\ trace[p].setCalls = 1 /\ ~trace[p].setOk
        /\ trace[p].prov.body # <<>>
        /\ resp[p].StatusCode = 200 /\ resp[p].Body = trace[p].prov.body

\* C9: a request whose provider call ended in a classified error issues no
\* cache set and changes nothing in the store.
C9_NoPopulationOnError ==
    \A p \in Procs :
        (Responding(p) /\ trace[p].provCalls = 1 /\ ProviderFailed(trace[p].prov))
        => (trace[p].setCalls = 0 /\ trace[p].writes = 0)

C9_Witness ==
    \E p \in SearchProcs :
        /\ Responding(p) /\ trace[p].prov.status = 503
        /\ trace[p].setCalls = 0
        /\ cache[key[p]].kind = "string"

\* C10: only an OPTIONS request from an allow-listed origin is answered by
\* the CORS-only response in front of the router.
C10_ShortCircuitOnlyPreflight ==
    \A p \in Procs :
        (pc[p] # "Idle" /\ trace[p].route = "preflight")
        => (req[p].HTTPMethod = "OPTIONS" /\ req[p].Origin \in AllowedOrigins)

\* C11: an OPTIONS request from an allow-listed origin is answered with
\* status 200, an empty body and the CORS headers, and neither the cache
\* store nor the provider is accessed for it.
C11_PreflightShortCircuit ==
    \A p \in Procs :
        (pc[p] # "Idle" /\ req[p].HTTPMethod = "OPTIONS"
                        /\ req[p].Origin \in AllowedOrigins)
        => /\ Responding(p)
           /\ resp[p].StatusCode = 200
           /\ resp[p].Body = <<>>
           /\ Headers(p) = [h \in {ACAO, ACAH, ACAM} |->
                               IF h = ACAO THEN req[p].Origin ELSE "*"]
           /\ trace[p].lookup = "none"
           /\ trace[p].provCalls = 0
           /\ trace[p].setCalls = 0

C11_Witness ==
    \E p \in Procs :
        /\ Responding(p) /\ req[p].HTTPMethod = "OPTIONS"
        /\ req[p].Origin = githubOrigin
        /\ resp[p].StatusCode = 200 /\ Headers(p)[ACAO] = githubOrigin

\* C12: nothing written while handling one request, other than cache
\* entries, shows in the response to another: the headers of a response are
\* those a fresh process gives to the same request.
C12_NoSharedMutableState ==
    \A p \in SearchProcs :
        Responding(p)
        => Headers(p) = createResponse(searchCorsInit, req[p].Origin,
                                       resp[p].StatusCode, resp[p].Body).resp.Headers

\* C13: while handling one request the provider is called at most once and
\* the cache set is issued at most once, also when several requests handle
\* the same cold key at the same time.
C13_SingleAttempt ==
    \A p \in Procs : trace[p].provCalls <= 1 /\ trace[p].setCalls <= 1

C13_Witness ==
    \E p, q \in SearchProcs :
        /\ p # q /\ key[p] = key[q]
        /\ pc[p] = "CachePopulate" /\ pc[q] = "CachePopulate"
        /\ trace[p].prior.kind = "none" /\ trace[q].prior.kind = "none"
        /\ trace[p].provCalls = 1 /\ trace[q].provCalls = 1

\* C14: with a deterministic provider every set for a key writes the same
\* value, so an entry never changes from one value to another, and a query
\* answered with 200 receives the body the provider gives for its own
\* operation and parameters.
OwnBody(p) ==
    (Responding(p) /\ resp[p].StatusCode = StatusOK
                   /\ trace[p].route \in {"forward", "reverse"})
    => resp[p].Body = providerOf(reqURL(trace[p].route, req[p].Query)).body

C14_IdempotentKeyedWrites ==
    [][/\ \A k \in Keys : (cache[k].kind = "string" /\ cache'[k].kind = "string")
                              => cache'[k].val = cache[k].val
       /\ \A p \in SearchProcs : OwnBody(p)']_vars

\* C15: a forward request gets and sets under its q parameter unchanged, a
\* reverse request under lat followed by lon with nothing between; reverse
\* requests with equal concatenations therefore share one entry.
DerivedKey(p) ==
    IF trace[p].route = "forward" THEN req[p].Query.q
    ELSE req[p].Query.lat \o req[p].Query.lon

C15_KeyDerivation ==
    [][\A p \in SearchProcs :
         /\ pc'[p] \in {"CacheLookup", "ProviderCall", "CachePopulate"}
            => key'[p] = DerivedKey(p)'
         /\ (LookupStep(p) /\ trace'[p].lookup = "reachable"
                           /\ cache[DerivedKey(p)].kind = "string"
                           /\ cache[DerivedKey(p)].val # <<>>)
            => Responding(p)' /\ resp'[p].Body = cache[DerivedKey(p)].val
         /\ (pc[p] = "CachePopulate" /\ pc'[p] # "CachePopulate")
            => /\ \A k \in Keys \ {DerivedKey(p)} : cache'[k] = cache[k]
               /\ trace'[p].setOk => cache'[DerivedKey(p)].val = result[p]]_vars

C15_Witness ==
    \E p, q \in SearchProcs :
        /\ Responding(p) /\ trace[p].route = "reverse" /\ trace[p].setOk
        /\ pc[q] = "CacheLookup" /\ trace[q].route = "reverse"
        /\ req[p].Query.lat = <<"1">> /\ req[p].Query.lon = <<"2", "3">>
        /\ req[q].Query.lat = <<"1", "2">> /\ req[q].Query.lon = <<"3">>
        /\ key[p] = key[q]
        /\ cache[key[q]].val = resp[p].Body /\ cache[key[q]].kind = "string"

\* C16: every response either handler returns carries
\* Access-Control-Allow-Headers: * and Access-Control-Allow-Methods: *.
C16_WildcardHeaders ==
    \A p \in Procs :
        Responding(p)
        => /\ {ACAH, ACAM} \subseteq DOMAIN Headers(p)
           /\ Headers(p)[ACAH] = "*"
           /\ Headers(p)[ACAM] = "*"

\* C17: a provider response with status 200 and an empty or garbled body
\* is a failure: the request is answered 500 and nothing is written to the
\* cache for it.
C17_GarbledBodyIsFailure ==
    \A p \in Procs :
        (Responding(p) /\ ProviderSucceeded(trace[p].prov)
                       /\ Unmarshal(trace[p].prov.body).failed)
        => /\ resp[p].StatusCode = StatusInternalServerError
           /\ trace[p].setCalls = 0
           /\ trace[p].writes = 0

\* C18: a query request moves forward only, Start, CacheLookup, then either
\* Respond or ProviderCall, CachePopulate, Respond: the get comes before any
\* provider call, the provider is called only after a miss (no entry for
\* the key, or the store unreachable), the set is issued only after a
\* successful provider call and together with the response, and the
\* response is produced once.
Forward ==
    { <<"Idle", "CacheLookup">>, <<"CacheLookup", "ProviderCall">>,
      <<"CacheLookup", "Respond">>, <<"ProviderCall", "CachePopulate">>,
      <<"ProviderCall", "Respond">>, <<"CachePopulate", "Respond">>,
      <<"Respond", "Idle">> }

IsQuery(r) == r.HTTPMethod = "GET" /\ requestType(r.Path) \in {<<"forward">>, <<"reverse">>}

C18_RequestStateMachine ==
    [][\A p \in SearchProcs :
         /\ (pc'[p] # pc[p] /\ IsQuery(IF pc[p] = "Idle" THEN req'[p] ELSE req[p]))
            => <<pc[p], pc'[p]>> \in Forward
         /\ trace'[p].provCalls # trace[p].provCalls /\ pc[p] # "Respond"
            => /\ pc[p] = "ProviderCall" /\ trace[p].lookup # "none"
               /\ trace[p].setCalls = 0
         /\ (pc[p] = "CacheLookup" /\ pc'[p] = "ProviderCall")
            => \/ trace'[p].lookup = "unreachable"
               \/ cache[key[p]].kind # "string"
         /\ trace'[p].setCalls # trace[p].setCalls /\ pc[p] # "Respond"
            => /\ pc[p] = "CachePopulate" /\ pc'[p] = "Respond"
               /\ ProviderSucceeded(trace[p].prov) /\ trace[p].provCalls = 1
         /\ (pc[p] = "Respond" /\ pc'[p] = "Respond") => resp'[p] = resp[p]]_vars

\* C19: an entry of the search program gets its expiry, 200 hours ahead, in
\* the set that writes it and nowhere else: a lookup, hit or not, leaves the
\* store as it is, a stored entry keeps its expiry until it is rewritten or
\* dropped, and it is dropped when the clock reaches the expiry.
PopulateStep(p) == pc[p] = "CachePopulate" /\ pc'[p] = "Respond"

C19_FixedTTL ==
    [][/\ \A k \in Keys :
            (cache'[k] # cache[k] /\ cache'[k].kind = "string")
            => /\ cache'[k].exp = now + 200
               /\ \E p \in SearchProcs : PopulateStep(p) /\ key[p] = k
       /\ \A k \in Keys :
            cache'[k].kind = "string" => now' < cache'[k].exp
       /\ \A k \in Keys :
            (cache[k].kind = "string" /\ cache'[k] # cache[k]
               /\ ~\E p \in Procs : PopulateStep(p) /\ key[p] = k)
            => cache'[k] = NoEntry /\ now' = cache[k].exp
       /\ \A p \in SearchProcs : LookupStep(p) => cache' = cache]_vars

C19_Witness ==
    \E p \in SearchProcs :
        /\ Responding(p) /\ trace[p].lookup = "reachable" /\ trace[p].provCalls = 0
        /\ resp[p].StatusCode = 200 /\ resp[p].Body = cache[key[p]].val
        /\ cache[key[p]].kind = "string"
        /\ now = 100 /\ cache[key[p]].exp = 200

\* C20: every string entry of the store was written by the set of a
\* request that derived that key, and holds the body the provider returned
\* with status 200 to that request's one call; nothing else, and no error
\* description, is ever stored.
C20_CacheContent ==
    [][\A k \in Keys :
         (cache'[k] # cache[k] /\ cache'[k].kind = "string")
         => \E p \in SearchProcs :
               /\ PopulateStep(p) /\ key[p] = k /\ DerivedKey(p) = k
               /\ trace[p].provCalls = 1
               /\ ProviderSucceeded(trace[p].prov) /\ ~ProviderFailed(trace[p].prov)
               /\ cache'[k].val = trace[p].prov.body]_vars

C20_Witness ==
    \E p \in SearchProcs :
        /\ Responding(p) /\ trace[p].lookup = "unreachable" /\ trace[p].setOk
        /\ cache[key[p]].kind = "string"
        /\ cache[key[p]].val = trace[p].prov.body
        /\ trace[p].prov.body # <<>>
        /\ trace[p].prior.kind = "string" /\ trace[p].prior.val # cache[key[p]].val

====
